---- MODULE Spec2Model ----
(***************************************************************************)
(* TimeMan: the duration encoding of src/main.rs.                          *)
(*                                                                         *)
(*   timedelta_to_str         chrono::TimeDelta x TimedeltaFlags -> String *)
(*   timedelta_from_str       &str -> Option<chrono::TimeDelta>            *)
(*   timedelta_str_to_preety  &str -> String                               *)
(*   TimedeltaFlags           the u8 bit set of units                      *)
(*                                                                         *)
(* A String is a sequence of one-character strings.  A chrono::TimeDelta   *)
(* is the record [secs, nanos] of the library: secs is the floor of the    *)
(* span in seconds (i64) and nanos, in 0..999999999 (i32), is what has to  *)
(* be added to it, so -0.5 s is [secs |-> -1, nanos |-> 500000000].        *)
(* A u32 is the record [hi, lo] of its two 16-bit halves, so that the      *)
(* arithmetic of the 32-bit accumulators is exact.                         *)
(***************************************************************************)
EXTENDS Integers, Sequences, FiniteSets, TLC

VARIABLES
    overflow_checks, \* the build: TRUE = overflow panics (debug), FALSE = it wraps (release)
    op,              \* the operation that produced this state
    timedelta,       \* the TimeDelta given to timedelta_to_str
    flags,           \* the TimedeltaFlags given to timedelta_to_str (a u8)
    str,             \* the String: timedelta_to_str's output, or the text given
    decoded,         \* what timedelta_from_str(str) returned
    preety           \* what timedelta_str_to_preety(str) returned

vars == <<overflow_checks, op, timedelta, flags, str, decoded, preety>>

-----------------------------------------------------------------------------
(* TimedeltaFlags *)

YEAR == 1
MONTH == 2
WEEK == 4
DAY == 8
HOUR == 16
MINUTE == 32
SECOND == 64
NANOS == 128

RECURSIVE BitAnd(_, _)
BitAnd(a, b) ==
    IF a = 0 \/ b = 0 THEN 0
    ELSE (a % 2) * (b % 2) + 2 * BitAnd(a \div 2, b \div 2)

RECURSIVE BitOr(_, _)
BitOr(a, b) ==
    IF a = 0 THEN b
    ELSE IF b = 0 THEN a
    ELSE (IF a % 2 = 1 \/ b % 2 = 1 THEN 1 ELSE 0) + 2 * BitOr(a \div 2, b \div 2)

empty == 0

all ==
    BitOr(YEAR, BitOr(MONTH, BitOr(WEEK, BitOr(DAY,
        BitOr(HOUR, BitOr(MINUTE, BitOr(SECOND, NANOS)))))))

default == BitOr(SECOND, NANOS)

contains(self, rhs) == BitAnd(self, rhs) = rhs

\* NewStep with an arm 'W' => out | WEEK
NewStep_WithWeek(out, char) ==
    CASE char = "Y" -> BitOr(out, YEAR)
      [] char = "M" -> BitOr(out, MONTH)
      [] char = "W" -> BitOr(out, WEEK)
      [] char = "D" -> BitOr(out, DAY)
      [] char = "h" -> BitOr(out, HOUR)
      [] char = "m" -> BitOr(out, MINUTE)
      [] char = "s" -> BitOr(out, SECOND)
      [] char = "n" -> BitOr(out, NANOS)
      [] OTHER -> out

\* one turn of "for char in str.chars()" of TimedeltaFlags::new
NewStep(out, char) ==
    CASE char = "Y" -> BitOr(out, YEAR)
      [] char = "M" -> BitOr(out, MONTH)
      [] char = "D" -> BitOr(out, DAY)
      [] char = "h" -> BitOr(out, HOUR)
      [] char = "m" -> BitOr(out, MINUTE)
      [] char = "s" -> BitOr(out, SECOND)
      [] char = "n" -> BitOr(out, NANOS)
      [] OTHER -> out

\* out after the first n characters
RECURSIVE NewScan(_, _)
NewScan(text, n) ==
    IF n = 0 THEN empty ELSE NewStep(NewScan(text, n - 1), text[n])

\* TimedeltaFlags::new
TimedeltaFlags_new(text) == NewScan(text, Len(text))

-----------------------------------------------------------------------------
(* Unit lengths *)

YEAR_IN_SECONDS == 31536000
MONTH_IN_SECONDS == YEAR_IN_SECONDS \div 12
WEAK_IN_SECONDS == 604800
DAY_IN_SECONDS == 86400
HOUR_IN_SECONDS == 3600
MINUTE_IN_SECONDS == 60

-----------------------------------------------------------------------------
(* chrono::TimeDelta, as the program uses it *)

NANOS_PER_SEC == 1000000000

\* TimeDelta::num_seconds: the whole seconds, rounded towards zero.
num_seconds(td) ==
    IF td.secs < 0 /\ td.nanos > 0 THEN td.secs + 1 ELSE td.secs

\* TimeDelta::subsec_nanos: the rest, with the sign of the span.
subsec_nanos(td) ==
    IF td.secs < 0 /\ td.nanos > 0 THEN td.nanos - NANOS_PER_SEC ELSE td.nanos

abs(n) == IF n < 0 THEN -n ELSE n

-----------------------------------------------------------------------------
(* u32 arithmetic on halves *)

Half == 256 * 256

U32(n) == [hi |-> n \div Half, lo |-> n % Half]

\* v >= 1_000_000_000 = 15258 * 65536 + 51712
U32AtLeastBillion(v) ==
    \/ v.hi > NANOS_PER_SEC \div Half
    \/ v.hi = NANOS_PER_SEC \div Half /\ v.lo >= NANOS_PER_SEC % Half

\* the value of a u32 below 2^31
U32Value(v) == v.hi * Half + v.lo

\* (v * 10) + d in u32: the wrapped value, and whether it overflowed
U32MulAdd(v, d) ==
    LET lo10 == v.lo * 10 + d
        hi10 == v.hi * 10 + lo10 \div Half
    IN  [val |-> [hi |-> hi10 % Half, lo |-> lo10 % Half], overflow |-> hi10 >= Half]

\* a + b in u32: the wrapped value, and whether it overflowed
U32Add(a, b) ==
    LET lo == a.lo + b.lo
        hi == a.hi + b.hi + lo \div Half
    IN  [val |-> [hi |-> hi % Half, lo |-> lo % Half], overflow |-> hi >= Half]

-----------------------------------------------------------------------------
(* Display of integers: format_args!("{n}") *)

DigitChars == <<"0", "1", "2", "3", "4", "5", "6", "7", "8", "9">>

Digits == {DigitChars[i] : i \in 1..10}

\* char as u32 - b'0' as u32
DigitValue(c) == (CHOOSE i \in 1..10 : DigitChars[i] = c) - 1

RECURSIVE ToDigits(_)
ToDigits(n) ==
    IF n < 10 THEN <<DigitChars[n + 1]>>
    ELSE ToDigits(n \div 10) \o <<DigitChars[(n % 10) + 1]>>

\* Display of a u32, by long division of the halves
RECURSIVE U32ToDigits(_)
U32ToDigits(v) ==
    LET lo2 == (v.hi % 10) * Half + v.lo
        q   == [hi |-> v.hi \div 10, lo |-> lo2 \div 10]
    IN  IF q.hi = 0 /\ q.lo = 0 THEN <<DigitChars[(lo2 % 10) + 1]>>
        ELSE U32ToDigits(q) \o <<DigitChars[(lo2 % 10) + 1]>>

-----------------------------------------------------------------------------
(* timedelta_to_str *)

\* EmitUnit without the "if count > 0": a unit that comes to nothing is written as 0
EmitUnit_NoSkip(st, fl, unit, unit_in_seconds, letter) ==
    IF contains(fl, unit)
    THEN LET count == st.seconds \div unit_in_seconds
         IN  [seconds |-> st.seconds - count * unit_in_seconds,
              out |-> st.out \o ToDigits(count) \o <<letter>>]
    ELSE st

\* one "if flags.contains(UNIT) { .. }" block; st = [seconds, out]
EmitUnit(st, fl, unit, unit_in_seconds, letter) ==
    IF contains(fl, unit)
    THEN LET count == st.seconds \div unit_in_seconds
         IN  IF count > 0
             THEN [seconds |-> st.seconds - count * unit_in_seconds,
                   out |-> st.out \o ToDigits(count) \o <<letter>>]
             ELSE st
    ELSE st

\* '-' if num_seconds() is negative, then 'P'
EmitSign(td) ==
    (IF num_seconds(td) < 0 THEN <<"-">> ELSE <<>>) \o <<"P">>

\* EmitT without the SECOND test
EmitT_HourOrMinute(st, fl) ==
    IF contains(fl, HOUR) \/ contains(fl, MINUTE)
    THEN [st EXCEPT !.out = @ \o <<"T">>]
    ELSE st

\* 'T' if HOUR, MINUTE or SECOND is selected
EmitT(st, fl) ==
    IF contains(fl, HOUR) \/ contains(fl, MINUTE) \/ contains(fl, SECOND)
    THEN [st EXCEPT !.out = @ \o <<"T">>]
    ELSE st

\* the SECOND block: the seconds left, with the nanoseconds if any and selected
EmitSeconds(st, td, fl) ==
    IF contains(fl, SECOND)
    THEN LET nanos == abs(td.nanos)
         IN  IF nanos # 0 /\ contains(fl, NANOS)
             THEN st.out \o ToDigits(st.seconds) \o <<".">> \o ToDigits(nanos) \o <<"S">>
             ELSE st.out \o ToDigits(st.seconds) \o <<"S">>
    ELSE st.out

timedelta_to_str(td, fl) ==
    LET s0 == [seconds |-> abs(td.secs), out |-> EmitSign(td)]
        s1 == EmitUnit(s0, fl, YEAR, YEAR_IN_SECONDS, "Y")
        s2 == EmitUnit(s1, fl, MONTH, MONTH_IN_SECONDS, "M")
        s3 == EmitUnit(s2, fl, WEEK, WEAK_IN_SECONDS, "W")
        s4 == EmitUnit(s3, fl, DAY, DAY_IN_SECONDS, "D")
        s5 == EmitT(s4, fl)
        s6 == EmitUnit(s5, fl, HOUR, HOUR_IN_SECONDS, "H")
        s7 == EmitUnit(s6, fl, MINUTE, MINUTE_IN_SECONDS, "M")
    IN  EmitSeconds(s7, td, fl)

-----------------------------------------------------------------------------
(* String literals of the phrase *)

Lit_Year == <<"Y", "e", "a", "r">>
Lit_Month == <<"M", "o", "n", "t", "h">>
Lit_Minute == <<"M", "i", "n", "u", "t", "e">>
Lit_Weak == <<"W", "e", "a", "k">>
Lit_Day == <<"D", "a", "y">>
Lit_Hour == <<"H", "o", "u", "r">>
Lit_Second == <<"S", "e", "c", "o", "n", "d">>
Lit_Nanoseconds == <<" ", "N", "a", "n", "o", "s", "e", "c", "o", "n", "d", "s">>

\* format!("{num1} Name{s}, ")
Fragment(num1, name, s) == ToDigits(num1) \o <<" ">> \o name \o s \o <<",", " ">>

-----------------------------------------------------------------------------
(* timedelta_str_to_preety *)

PreetyInit ==
    [out |-> <<>>, num1 |-> 0, num2 |-> U32(0), dec |-> FALSE, time |-> FALSE,
     panic |-> FALSE]

\* the digit arm: num2 = (num2 * 10) + num after a '.', num1 = (num1 * 10) + num before
PreetyDigit(st, num) ==
    IF st.dec
    THEN LET r == U32MulAdd(st.num2, num)
         IN  IF r.overflow /\ overflow_checks
             THEN [st EXCEPT !.panic = TRUE]
             ELSE [st EXCEPT !.num2 = r.val]
    ELSE [st EXCEPT !.num1 = (st.num1 * 10) + num]

\* PreetyNameOfM with the test of the flag turned round
PreetyNameOfM_Swapped(st) == IF st.time THEN Lit_Month ELSE Lit_Minute

\* the name an 'M' gets: Month before any 'T', Minute after one
PreetyNameOfM(st) == IF ~st.time THEN Lit_Month ELSE Lit_Minute

\* the arms of Y, M, W, D, H: the fragment, then num1 = 0
PreetyUnit(st, name, s) ==
    [st EXCEPT !.out = @ \o Fragment(st.num1, name, s), !.num1 = 0]

\* the arm of S: the fragment, and the nanoseconds if num2 > 0; num1 is kept
PreetySecond(st, s) ==
    [st EXCEPT !.out = @ \o Fragment(st.num1, Lit_Second, s)
                         \o (IF st.num2 # U32(0)
                             THEN U32ToDigits(st.num2) \o Lit_Nanoseconds
                             ELSE <<>>)]

\* one turn of "for char in str.chars()"
PreetyStep(st, char) ==
    LET s == IF st.num1 > 1 THEN <<"s">> ELSE <<>>
    IN  CASE char \in Digits -> PreetyDigit(st, DigitValue(char))
          [] char = "." -> [st EXCEPT !.dec = TRUE]
          [] char = "-" -> [st EXCEPT !.out = @ \o <<"-">>]
          [] char = "P" -> st
          [] char = "T" -> [st EXCEPT !.time = TRUE]
          [] char = "Y" -> PreetyUnit(st, Lit_Year, s)
          [] char = "M" -> PreetyUnit(st, PreetyNameOfM(st), s)
          [] char = "W" -> PreetyUnit(st, Lit_Weak, s)
          [] char = "D" -> PreetyUnit(st, Lit_Day, s)
          [] char = "H" -> PreetyUnit(st, Lit_Hour, s)
          [] char = "S" -> PreetySecond(st, s)
          [] OTHER -> st

\* the state of the scan after the first n characters
RECURSIVE PreetyScan(_, _)
PreetyScan(text, n) ==
    IF n = 0 THEN PreetyInit
    ELSE LET st == PreetyScan(text, n - 1)
         IN  IF st.panic THEN st ELSE PreetyStep(st, text[n])

timedelta_str_to_preety(text) ==
    LET st == PreetyScan(text, Len(text))
    IN  [panic |-> st.panic, out |-> IF st.panic THEN <<>> ELSE st.out]

-----------------------------------------------------------------------------
(* timedelta_from_str *)

None == [kind |-> "None", secs |-> 0, nanos |-> 0]
Panic == [kind |-> "panic", secs |-> 0, nanos |-> 0]
Some(td) == [kind |-> "Some", secs |-> td.secs, nanos |-> td.nanos]

\* TimeDelta::new(secs, nanos): None when nanos >= 1_000_000_000
TimeDelta_new(secs, nanos) ==
    IF U32AtLeastBillion(nanos) THEN None
    ELSE Some([secs |-> secs, nanos |-> U32Value(nanos)])

\* the first loop: any number of '-', then 'P'; i is the next character
RECURSIVE LeadIn(_, _, _)
LeadIn(text, i, sign) ==
    IF i > Len(text) THEN [ok |-> FALSE, sign |-> sign, next |-> i]
    ELSE CASE text[i] = "-" -> LeadIn(text, i + 1, -1)
           [] text[i] = "P" -> [ok |-> TRUE, sign |-> sign, next |-> i + 1]
           [] OTHER -> [ok |-> FALSE, sign |-> sign, next |-> i]

FromStrInit ==
    [seconds |-> 0, nanos |-> U32(0), num1 |-> 0, num2 |-> U32(0), dec |-> FALSE,
     time |-> FALSE, kind |-> "scan"]

\* the digit arm: num1 = (num1 * 10) + num before a '.', num2 = (num2 * 10) + num after
FromStrDigit(st, num) ==
    IF ~st.dec
    THEN [st EXCEPT !.num1 = (st.num1 * 10) + num]
    ELSE LET r == U32MulAdd(st.num2, num)
         IN  IF r.overflow /\ overflow_checks
             THEN [st EXCEPT !.kind = "panic"]
             ELSE [st EXCEPT !.num2 = r.val]

\* the length an 'M' is counted with: minutes after a 'T', months before
FromStrLengthOfM(st) == IF st.time THEN MINUTE_IN_SECONDS ELSE MONTH_IN_SECONDS

\* FromStrUnit without "num1 = 0"
FromStrUnit_KeepsNum1(st, unit_in_seconds) ==
    [st EXCEPT !.seconds = @ + st.num1 * unit_in_seconds]

\* the arms of Y, M, W, D, H: seconds += num1 * LENGTH, then num1 = 0
FromStrUnit(st, unit_in_seconds) ==
    [st EXCEPT !.seconds = @ + st.num1 * unit_in_seconds, !.num1 = 0]

\* the arm of T
FromStrT(st) == [st EXCEPT !.num1 = 0, !.time = TRUE]

\* the arm of S: seconds += num1; nanos += num2
FromStrSecond(st) ==
    LET r == U32Add(st.nanos, st.num2)
    IN  IF r.overflow /\ overflow_checks
        THEN [st EXCEPT !.kind = "panic"]
        ELSE [st EXCEPT !.seconds = @ + st.num1, !.nanos = r.val]

\* one turn of "for char in chars"
FromStrStep(st, char) ==
    CASE char \in Digits -> FromStrDigit(st, DigitValue(char))
      [] char = "Y" -> FromStrUnit(st, YEAR_IN_SECONDS)
      [] char = "M" -> FromStrUnit(st, FromStrLengthOfM(st))
      [] char = "W" -> FromStrUnit(st, WEAK_IN_SECONDS)
      [] char = "D" -> FromStrUnit(st, DAY_IN_SECONDS)
      [] char = "T" -> FromStrT(st)
      [] char = "H" -> FromStrUnit(st, HOUR_IN_SECONDS)
      [] char = "." -> [st EXCEPT !.dec = TRUE]
      [] char = "S" -> FromStrSecond(st)
      [] OTHER -> [st EXCEPT !.kind = "none"]

\* the state of the second loop after the characters first..n of text
RECURSIVE FromStrScan(_, _, _)
FromStrScan(text, first, n) ==
    IF n < first THEN FromStrInit
    ELSE LET st == FromStrScan(text, first, n - 1)
         IN  IF st.kind # "scan" THEN st ELSE FromStrStep(st, text[n])

timedelta_from_str(text) ==
    LET lead == LeadIn(text, 1, 1)
    IN  IF ~lead.ok THEN None
        ELSE LET st == FromStrScan(text, lead.next, Len(text))
             IN  CASE st.kind = "none" -> None
                   [] st.kind = "panic" -> Panic
                   [] OTHER -> TimeDelta_new(st.seconds * lead.sign, st.nanos)

-----------------------------------------------------------------------------
(* The inputs *)

MaxUnitCount == 1
MaxSmallSecs == 2
MaxBodyLen == 3
MaxFlagsLen == 3

UnitLengths ==
    {YEAR_IN_SECONDS, MONTH_IN_SECONDS, WEAK_IN_SECONDS, DAY_IN_SECONDS,
     HOUR_IN_SECONDS, MINUTE_IN_SECONDS}

\* one of every unit
OneOfEach ==
    YEAR_IN_SECONDS + MONTH_IN_SECONDS + WEAK_IN_SECONDS + DAY_IN_SECONDS
        + HOUR_IN_SECONDS + MINUTE_IN_SECONDS

Magnitudes ==
    {k * u + s : k \in 0..MaxUnitCount, u \in UnitLengths, s \in 0..MaxSmallSecs}
        \cup {OneOfEach + s : s \in 0..MaxSmallSecs}

SecsValues == Magnitudes \cup {-m : m \in Magnitudes}

NanosValues == {0, 32, 500000000}

TimeDeltas == [secs : SecsValues, nanos : NanosValues]

AllFlags == 0..255

Leads == {<<>>, <<"P">>, <<"-", "P">>, <<"-", "-", "P">>, <<"-">>}

BodyAlphabet == {"1", "2", "M", "W", "H", "S", "T", ".", "X"}

Bodies == UNION {[1..n -> BodyAlphabet] : n \in 0..MaxBodyLen}

ExampleTexts ==
    {<<"P", "T", "1", "Y", "2", "M", "3", "D", "T", "4", "H", "5", "M", "6", "S">>,
     <<"P", "1", "Y", "2", "M", "3", "D", "T", "4", "H", "5", "M", "6", "S">>,
     <<"P", "5", "T", "3", "H">>,
     <<"P", "1", "2", "W">>,
     <<"P", "1", "W">>,
     <<"P", "Y">>,
     <<"P", "T", "1", ".", "5", "S">>,
     <<"P", "T", "1", ".", "3", "2", "S">>,
     <<"-", "P", "T", "5", "S">>,
     <<"P", "T", "0", "S">>,
     <<"P", "T", "1", ".", "9", "9", "9", "9", "9", "9", "9", "9", "9", "S">>,
     <<"P", "T", "1", ".", "1", "0", "0", "0", "0", "0", "0", "0", "0", "0", "S">>,
     <<"P", "T", "1", ".", "0", "0", "0", "0", "0", "0", "0", "0", "0", "5", "S">>,
     <<"P", "T", "1", ".", "4", "2", "9", "4", "9", "6", "7", "2", "9", "5", "S">>,
     <<"P", "T", "1", ".", "4", "2", "9", "4", "9", "6", "7", "2", "9", "6", "S">>,
     <<"P", "T", "1", ".", "4", "2", "9", "4", "9", "6", "7", "3", "0", "1", "S">>,
     <<"P", "T", "1", ".", "5", "2", "9", "4", "9", "6", "7", "2", "9", "6", "S">>,
     <<"P", ".", "2", "1", "4", "7", "4", "8", "3", "6", "4", "8", "S", "S">>,
     <<"P", "T", "3", "M", "1", ".", "5", "S", "2", "S">>}

Texts == {l \o b : l \in Leads, b \in Bodies} \cup ExampleTexts

\* the letters of --duration-flags, and three that are none of them
FlagsAlphabet == {"Y", "M", "D", "h", "m", "s", "n", "W", "S", "X"}

ExampleFlagsTexts ==
    {<<"Y", "M", "D", "h", "m", "s", "n">>,
     <<"n", "s", "m", "h", "D", "M", "Y">>,
     <<"Y", "M", "W", "D", "h", "m", "s", "n">>,
     <<"s", "s", "n", "n", "s", "s">>}

FlagsTexts == UNION {[1..n -> FlagsAlphabet] : n \in 0..MaxFlagsLen} \cup ExampleFlagsTexts

-----------------------------------------------------------------------------
(* The program: one command per run *)

ZeroDelta == [secs |-> 0, nanos |-> 0]
NotDecoded == [kind |-> "not run", secs |-> 0, nanos |-> 0]
NotPreety == [panic |-> FALSE, out |-> <<>>]

Init ==
    /\ overflow_checks \in BOOLEAN
    /\ op = "start"
    /\ timedelta = ZeroDelta
    /\ flags = empty
    /\ str = <<>>
    /\ decoded = NotDecoded
    /\ preety = NotPreety

\* TimeManCommand::Since / Sub: print timedelta_to_str, or its phrase with --preety
ToStrCommand ==
    /\ op = "start"
    /\ \E td \in TimeDeltas, fl \in AllFlags, p \in BOOLEAN :
          /\ timedelta' = td
          /\ flags' = fl
          /\ str' = timedelta_to_str(td, fl)
          /\ preety' = IF p THEN timedelta_str_to_preety(str') ELSE NotPreety
          /\ op' = IF p THEN "to_str_preety" ELSE "to_str"
    /\ decoded' = NotDecoded
    /\ UNCHANGED overflow_checks

\* TimeManCommand::SubDuration / AddDuration: timedelta_from_str of the text given
FromStrCommand ==
    /\ op = "start"
    /\ \E text \in Texts :
          /\ str' = text
          /\ decoded' = timedelta_from_str(text)
    /\ op' = "from_str"
    /\ preety' = NotPreety
    /\ UNCHANGED <<overflow_checks, timedelta, flags>>

\* timedelta_str_to_preety of any text
PreetyCall ==
    /\ op = "start"
    /\ \E text \in Texts :
          /\ str' = text
          /\ preety' = timedelta_str_to_preety(text)
    /\ op' = "preety"
    /\ decoded' = NotDecoded
    /\ UNCHANGED <<overflow_checks, timedelta, flags>>

\* the test: timedelta_from_str(&timedelta_to_str(td, flags))
RoundTrip ==
    /\ op = "start"
    /\ \E td \in TimeDeltas, fl \in AllFlags :
          /\ timedelta' = td
          /\ flags' = fl
          /\ str' = timedelta_to_str(td, fl)
          /\ decoded' = timedelta_from_str(str')
    /\ op' = "round_trip"
    /\ preety' = NotPreety
    /\ UNCHANGED overflow_checks

\* --duration-flags: TimedeltaFlags::new of the text given
NewFlags ==
    /\ op = "start"
    /\ \E text \in FlagsTexts :
          /\ str' = text
          /\ flags' = TimedeltaFlags_new(text)
    /\ op' = "flags_new"
    /\ decoded' = NotDecoded
    /\ preety' = NotPreety
    /\ UNCHANGED <<overflow_checks, timedelta>>

Next == ToStrCommand \/ FromStrCommand \/ PreetyCall \/ RoundTrip \/ NewFlags

Spec == Init /\ [][Next]_vars

-----------------------------------------------------------------------------
(* Reading a String, for the properties *)

\* bit is one of the bits of the u8 fl
HasBit(fl, bit) == (fl \div bit) % 2 = 1

\* sub is in s at position i
IsAt(sub, s, i) ==
    /\ i + Len(sub) - 1 <= Len(s)
    /\ \A k \in 1..Len(sub) : s[i + k - 1] = sub[k]

IsInfix(sub, s) == \E i \in 1..(Len(s) - Len(sub) + 1) : IsAt(sub, s, i)

CountOf(c, s) == Cardinality({i \in 1..Len(s) : s[i] = c})

\* the first position of the run of digits that ends at i (i + 1 if there is none)
RECURSIVE RunStart(_, _)
RunStart(s, i) ==
    IF i >= 1 /\ s[i] \in Digits THEN RunStart(s, i - 1) ELSE i + 1

\* the number a sequence of at most nine digits writes
RECURSIVE DigitsValue(_)
DigitsValue(ds) ==
    IF ds = <<>> THEN 0
    ELSE DigitsValue(SubSeq(ds, 1, Len(ds) - 1)) * 10 + DigitValue(ds[Len(ds)])

RECURSIVE StripZeros(_)
StripZeros(ds) ==
    IF ds # <<>> /\ ds[1] = "0" THEN StripZeros(Tail(ds)) ELSE ds

\* the digits written right before position i
RunBefore(s, i) == SubSeq(s, RunStart(s, i - 1), i - 1)

\* the digits of the whole count written before the letter at i: for n.fS it is n
CountDigitsBefore(s, i) ==
    LET a == RunStart(s, i - 1)
    IN  IF a > 1 /\ s[a - 1] = "." THEN RunBefore(s, a - 1) ELSE RunBefore(s, i)

\* a 'T' stands before position i
AfterT(s, i) == \E j \in 1..(i - 1) : s[j] = "T"

UnitLetters == {"Y", "M", "W", "D", "H", "S"}

\* the flag of the unit the letter at position i of an encoded string stands for
BitOfLetter(s, i) ==
    CASE s[i] = "Y" -> YEAR
      [] s[i] = "M" -> IF AfterT(s, i) THEN MINUTE ELSE MONTH
      [] s[i] = "W" -> WEEK
      [] s[i] = "D" -> DAY
      [] s[i] = "H" -> HOUR
      [] s[i] = "S" -> SECOND

EncodedStates == {"to_str", "to_str_preety", "round_trip"}

-----------------------------------------------------------------------------
(* C1: round trip under the all-units mask *)

\* C1 (as claimed): for every time-span, negative ones with a fraction included,
\* decoding what timedelta_to_str writes under TimedeltaFlags::all() succeeds and
\* gives a span with the same total seconds and the same nanosecond remainder.
C1_RoundTripAllUnits ==
    (op = "round_trip" /\ flags = all) =>
        /\ decoded.kind = "Some"
        /\ num_seconds(decoded) = num_seconds(timedelta)
        /\ subsec_nanos(decoded) = subsec_nanos(timedelta)

-----------------------------------------------------------------------------
(* C2: the decoder as a left inverse of the encoder *)

\* C2 (as claimed): for every time-span and every one of the 256 masks,
\* timedelta_from_str(timedelta_to_str(s, m)) returns s.
C2_LeftInverseAnyMask ==
    op = "round_trip" => decoded = Some(timedelta)

\* what the round trip returns for s when the mask keeps the seconds and the
\* fraction: s, but for a span between -1 s and 0, which is written without '-'
C2_Returned(s) ==
    IF s.secs = -1 /\ s.nanos > 0 THEN [secs |-> 1, nanos |-> s.nanos] ELSE s

\* C2 (amended): for every time-span s and every mask with SECOND, and with NANOS
\* unless s has no nanosecond remainder, the round trip succeeds and returns s; only
\* for a span strictly between -1 s and 0 it returns 1 s plus the stored nanoseconds.
C2_LeftInverseSecondMasks ==
    (/\ op = "round_trip"
     /\ HasBit(flags, SECOND)
     /\ (HasBit(flags, NANOS) \/ timedelta.nanos = 0)) =>
        decoded = Some(C2_Returned(timedelta))

\* a span of several units and a fraction went through the default mask unchanged,
\* and so did a negative one through a mask without YEAR
C2_Witness ==
    /\ op = "round_trip"
    /\ \/ /\ flags = default
          /\ timedelta = [secs |-> OneOfEach + 1, nanos |-> 32]
       \/ /\ flags = all - YEAR
          /\ timedelta = [secs |-> -YEAR_IN_SECONDS - 2, nanos |-> 500000000]
    /\ decoded = Some(timedelta)

-----------------------------------------------------------------------------
(* C3: the lead-in *)

\* at most one '-', then 'P'
C3_LeadOk(s) ==
    \/ Len(s) >= 1 /\ s[1] = "P"
    \/ Len(s) >= 2 /\ s[1] = "-" /\ s[2] = "P"

\* C3 (as claimed): timedelta_from_str returns None for every text that does not
\* begin with at most one '-' immediately followed by 'P'.
C3_LeadInRejection ==
    (op = "from_str" /\ ~C3_LeadOk(str)) => decoded = None

-----------------------------------------------------------------------------
(* C4: the sign marker *)

\* the span is less than zero
C4_IsNegative(td) == td.secs < 0

\* C4 (as claimed): the string timedelta_to_str writes begins with '-' if and only
\* if the span is less than zero, also when its magnitude is below one second.
C4_SignMarker ==
    op \in EncodedStates =>
        ((Len(str) >= 1 /\ str[1] = "-") <=> C4_IsNegative(timedelta))

-----------------------------------------------------------------------------
(* C5: fractional seconds in the decoder *)

\* s is P...T<n>.<f>S, with the 'T' at t and the '.' at d
C5_Form(s, t, d) ==
    /\ 1 < t /\ t + 1 < d /\ d + 1 < Len(s)
    /\ s[1] = "P" /\ s[t] = "T" /\ s[d] = "." /\ s[Len(s)] = "S"
    /\ \A i \in (t + 1)..(d - 1) : s[i] \in Digits
    /\ \A i \in (d + 1)..(Len(s) - 1) : s[i] \in Digits
    /\ \A i \in 2..(t - 1) : s[i] \in Digits \cup {"Y", "M", "W", "D"}

C5_Fraction(s, d) == StripZeros(SubSeq(s, d + 1, Len(s) - 1))

\* C5 (as claimed): for P...T<n>.<f>S the nanoseconds are the plain integer f, and
\* no time-span is returned when f is 1,000,000,000 or more, however long f is.
C5_FractionalSeconds ==
    op = "from_str" =>
        \A t \in 1..Len(str), d \in 1..Len(str) :
            C5_Form(str, t, d) =>
                IF Len(C5_Fraction(str, d)) >= 10
                THEN decoded.kind # "Some"
                ELSE /\ decoded.kind = "Some"
                     /\ decoded.nanos = DigitsValue(C5_Fraction(str, d))

-----------------------------------------------------------------------------
(* C6: the counts of the unit letters *)

\* C6 (as claimed): every unit letter timedelta_to_str writes, S included, follows a
\* non-zero count and is the letter of a unit of the mask.
C6_NoZeroCount ==
    op \in EncodedStates =>
        \A i \in 1..Len(str) :
            str[i] \in UnitLetters =>
                /\ DigitsValue(CountDigitsBefore(str, i)) # 0
                /\ HasBit(flags, BitOfLetter(str, i))

\* C6 (amended): every letter Y, M, W, D, H, M follows a non-zero count, written
\* without a leading zero, and is the letter of a unit of the mask; S is written
\* exactly when SECOND is in the mask, once, at the end, also after a count of 0.
C6_NoZeroCountButSeconds ==
    op \in EncodedStates =>
        /\ \A i \in 1..Len(str) :
              str[i] \in UnitLetters \ {"S"} =>
                  /\ RunBefore(str, i) # <<>>
                  /\ RunBefore(str, i)[1] # "0"
                  /\ HasBit(flags, BitOfLetter(str, i))
        /\ CountOf("S", str) = (IF HasBit(flags, SECOND) THEN 1 ELSE 0)
        /\ HasBit(flags, SECOND) =>
              /\ str[Len(str)] = "S"
              /\ CountDigitsBefore(str, Len(str)) # <<>>

\* an hour and nothing else: with every unit selected only 1H and 0S are written
C6_Witness ==
    /\ op \in EncodedStates
    /\ flags = all
    /\ timedelta = [secs |-> HOUR_IN_SECONDS, nanos |-> 0]
    /\ str = <<"P", "T", "1", "H", "0", "S">>

-----------------------------------------------------------------------------
(* C7: the time designator *)

C7_TimeSelected(fl) == HasBit(fl, HOUR) \/ HasBit(fl, MINUTE) \/ HasBit(fl, SECOND)

\* C7: the string has exactly one 'T' if the mask has HOUR, MINUTE or SECOND and
\* none otherwise, whatever the span; the zero span is "P" under the empty mask and
\* "PT0S" under {SECOND, NANOS}.
C7_TimeDesignator ==
    op \in EncodedStates =>
        /\ CountOf("T", str) = (IF C7_TimeSelected(flags) THEN 1 ELSE 0)
        /\ (timedelta = ZeroDelta /\ flags = 0) => str = <<"P">>
        /\ (timedelta = ZeroDelta /\ flags = SECOND + NANOS) =>
              str = <<"P", "T", "0", "S">>

\* a span of a day under a mask with MINUTE alone: the 'T' is there
C7_Witness ==
    /\ op \in EncodedStates
    /\ flags = MINUTE
    /\ timedelta = [secs |-> -DAY_IN_SECONDS, nanos |-> 0]
    /\ str = <<"-", "P", "T", "1", "4", "4", "0", "M">>

-----------------------------------------------------------------------------
(* C8: Month and Minute in "PT1Y2M3DT4H5M6S" *)

C8_Text == <<"P", "T", "1", "Y", "2", "M", "3", "D", "T", "4", "H", "5", "M", "6", "S">>
C8_TextNoT == <<"P", "1", "Y", "2", "M", "3", "D", "T", "4", "H", "5", "M", "6", "S">>

\* C8 (as claimed): the phrase of "PT1Y2M3DT4H5M6S" contains "2 Months, " and
\* "5 Minutes, ".
C8_MonthBeforeSecondT ==
    (op = "preety" /\ str = C8_Text) =>
        /\ IsInfix(<<"2", " ", "M", "o", "n", "t", "h", "s", ",", " ">>, preety.out)
        /\ IsInfix(<<"5", " ", "M", "i", "n", "u", "t", "e", "s", ",", " ">>, preety.out)

\* C8 (amended): the 'T' that opens "PT1Y2M3DT4H5M6S" makes both 'M' a Minute: the
\* phrase is "1 Year, 2 Minutes, 3 Days, 4 Hours, 5 Minutes, 6 Seconds, "; it is in
\* "P1Y2M3DT4H5M6S" that the first 'M' is a Month and the second a Minute.
C8_MinuteAfterFirstT ==
    op = "preety" =>
        /\ str = C8_Text =>
              /\ ~preety.panic
              /\ preety.out =
                  <<"1", " ", "Y", "e", "a", "r", ",", " ", "2", " ", "M", "i",
                    "n", "u", "t", "e", "s", ",", " ", "3", " ", "D", "a", "y",
                    "s", ",", " ", "4", " ", "H", "o", "u", "r", "s", ",", " ",
                    "5", " ", "M", "i", "n", "u", "t", "e", "s", ",", " ", "6",
                    " ", "S", "e", "c", "o", "n", "d", "s", ",", " ">>
        /\ str = C8_TextNoT =>
              /\ ~preety.panic
              /\ preety.out =
                  <<"1", " ", "Y", "e", "a", "r", ",", " ", "2", " ", "M", "o",
                    "n", "t", "h", "s", ",", " ", "3", " ", "D", "a", "y", "s",
                    ",", " ", "4", " ", "H", "o", "u", "r", "s", ",", " ", "5",
                    " ", "M", "i", "n", "u", "t", "e", "s", ",", " ", "6", " ",
                    "S", "e", "c", "o", "n", "d", "s", ",", " ">>

C8_Witness ==
    /\ op = "preety"
    /\ str = C8_Text
    /\ IsInfix(<<"2", " ", "M", "i", "n", "u", "t", "e", "s", ",", " ">>, preety.out)
    /\ ~IsInfix(Lit_Month, preety.out)

-----------------------------------------------------------------------------
(* C9: the fragments of the phrase *)

Lit_Week == <<"W", "e", "e", "k">>

\* the name the claim gives the unit letter at position n
C9_UnitName(s, n) ==
    CASE s[n] = "Y" -> Lit_Year
      [] s[n] = "M" -> IF AfterT(s, n) THEN Lit_Minute ELSE Lit_Month
      [] s[n] = "W" -> Lit_Week
      [] s[n] = "D" -> Lit_Day
      [] s[n] = "H" -> Lit_Hour
      [] s[n] = "S" -> Lit_Second

\* "<count> <UnitName><s>, " with the "s" exactly when count > 1
C9_Fragment(count, name) ==
    ToDigits(count) \o <<" ">> \o name \o (IF count > 1 THEN <<"s">> ELSE <<>>)
        \o <<",", " ">>

\* C9 (as claimed): each unit letter Y, M, W, D, H, S appends to the phrase exactly
\* "<count> <UnitName><s>, ", count being the pending integer and UnitName Year,
\* Month or Minute, Week, Day, Hour, Second, at the end of what the letters before
\* it gave.
C9_PhraseFragments ==
    (op = "preety" /\ ~preety.panic) =>
        /\ preety.out = PreetyScan(str, Len(str)).out
        /\ \A n \in 1..Len(str) :
              str[n] \in UnitLetters =>
                  LET before == PreetyScan(str, n - 1)
                      after  == PreetyScan(str, n)
                      frag   == C9_Fragment(before.num1, C9_UnitName(str, n))
                  IN  /\ IsAt(before.out, after.out, 1)
                      /\ IsAt(frag, after.out, Len(before.out) + 1)
                      /\ str[n] # "S" => Len(after.out) = Len(before.out) + Len(frag)

-----------------------------------------------------------------------------
(* C10: the renderer and the decoder read a text alike *)

\* C10 (as claimed): for every text timedelta_from_str accepts, the count the
\* renderer prints at a unit letter is the pending integer the decoder counts at
\* that letter, and an 'M' is a Month for the one exactly when it is for the other.
C10_RendererMirrorsDecoder ==
    (op = "from_str" /\ decoded.kind = "Some") =>
        LET first == LeadIn(str, 1, 1).next
        IN  \A n \in first..Len(str) :
                str[n] \in UnitLetters =>
                    LET d == FromStrScan(str, first, n - 1)
                        p == PreetyScan(str, n - 1)
                    IN  /\ p.num1 = d.num1
                        /\ str[n] = "M" =>
                              ((PreetyNameOfM(p) = Lit_Month)
                                  <=> (FromStrLengthOfM(d) = MONTH_IN_SECONDS))

-----------------------------------------------------------------------------
(* C11: the mask of a string of letters *)

\* the letter of each flag; WEEK has none
C11_Letters ==
    {<<"Y", YEAR>>, <<"M", MONTH>>, <<"D", DAY>>, <<"h", HOUR>>, <<"m", MINUTE>>,
     <<"s", SECOND>>, <<"n", NANOS>>}

C11_Bits == {YEAR, MONTH, WEEK, DAY, HOUR, MINUTE, SECOND, NANOS}

\* the characters of s, without their order and their number
C11_Chars(s) == {s[i] : i \in 1..Len(s)}

C11_Reverse(s) == [i \in 1..Len(s) |-> s[Len(s) + 1 - i]]

\* C11: TimedeltaFlags::new returns exactly the union of the flags of the letters
\* Y, M, D, h, m, s, n met in the string: every other character adds nothing, the
\* order and the repetitions do not count, WEEK is never in it, so no string gives
\* the all-units mask; "sn" gives {SECOND, NANOS} and "X" the empty mask.
C11_MaskFromLetters ==
    op = "flags_new" =>
        /\ flags \in 0..255
        /\ \A bit \in C11_Bits :
              HasBit(flags, bit) <=>
                  \E l \in C11_Letters : l[2] = bit /\ l[1] \in C11_Chars(str)
        /\ ~HasBit(flags, WEEK)
        /\ flags # 255
        /\ TimedeltaFlags_new(C11_Reverse(str)) = flags
        /\ TimedeltaFlags_new(str \o str) = flags
        /\ str = <<"s", "n">> => flags = SECOND + NANOS
        /\ str = <<"X">> => flags = 0

\* every letter there is, and a 'W' with them: all the flags but WEEK
C11_Witness ==
    /\ op = "flags_new"
    /\ str = <<"Y", "M", "W", "D", "h", "m", "s", "n">>
    /\ flags = 255 - WEEK

-----------------------------------------------------------------------------
(* C12: what the counts of an encoded string add up to *)

\* the units in the order they are taken, with the lengths the claim gives them
C12_Units ==
    <<[bit |-> YEAR, len |-> 31536000], [bit |-> MONTH, len |-> 2628000],
      [bit |-> WEEK, len |-> 604800], [bit |-> DAY, len |-> 86400],
      [bit |-> HOUR, len |-> 3600], [bit |-> MINUTE, len |-> 60],
      [bit |-> SECOND, len |-> 1]>>

\* the count written for the k-th unit in s: 0 if its letter is not there
C12_Count(s, k) ==
    LET at == {i \in 1..Len(s) :
                  s[i] \in UnitLetters /\ BitOfLetter(s, i) = C12_Units[k].bit}
    IN  IF at = {} THEN 0
        ELSE DigitsValue(CountDigitsBefore(s, CHOOSE i \in at : TRUE))

\* the seconds the counts of the first k units stand for
RECURSIVE C12_Sum(_, _)
C12_Sum(s, k) ==
    IF k = 0 THEN 0 ELSE C12_Sum(s, k - 1) + C12_Count(s, k) * C12_Units[k].len

\* C12 (as claimed): for every time-span, negative ones with a fraction included,
\* and every mask with SECOND, the counts written add up, each times its unit's
\* length, to the absolute value of num_seconds(), and each selected unit, in the
\* order Y, M, W, D, H, M, S, takes all it can of what the units before it left.
C12_Conservation ==
    (op \in EncodedStates /\ HasBit(flags, SECOND)) =>
        LET total == abs(num_seconds(timedelta))
        IN  /\ C12_Sum(str, Len(C12_Units)) = total
            /\ \A k \in 1..Len(C12_Units) :
                  C12_Count(str, k) =
                      IF HasBit(flags, C12_Units[k].bit)
                      THEN (total - C12_Sum(str, k - 1)) \div C12_Units[k].len
                      ELSE 0

====
